---- MODULE Spec2Model ----
(***************************************************************************)
(* State-machine model of the MAL profiler ingestion code:                 *)
(*   src/mal_profiler/profiler_parser.py  ProfilerObjectParser             *)
(*   src/mal_analytics/db_manager.py      DatabaseManager                  *)
(* The parser's four counters and the rows held by the storage sink are    *)
(* the state; one action per public operation.  Spec is the parser on its  *)
(* database, SpecManager the DatabaseManager singleton and its connection. *)
(***************************************************************************)
EXTENDS Integers, Sequences, FiniteSets, TLC

VARIABLES
    _execution_id,   \* ProfilerObjectParser._execution_id
    _event_id,       \* ProfilerObjectParser._event_id
    _variable_id,    \* ProfilerObjectParser._variable_id
    _heartbeat_id,   \* ProfilerObjectParser._heartbeat_id
    db,              \* rows the sink holds, in the order it accepted them
    sink,            \* how many more rows the sink accepts before it rejects
    outcome,         \* how the last call ended: "return" or the exception raised
    log,             \* what the last call logged
    alloc,           \* the counter increments of this parser, in order
    resolved,        \* the (name, id) pairs this parser wrote into list entries
    seed,            \* get_limits() when this parser was constructed
    last,            \* the text handed to the last parse_object call
    kinds,           \* what each call so far was given: the kind of its text
    before,          \* counters and Len(db) when the last call started
    nrec,            \* number of parse_object calls so far
    _instances,      \* Singleton._instances: the registered (class, object) pairs
    objects,         \* the DatabaseManager objects constructed so far, by number
    schema,          \* the tables the database has
    call,            \* the last DatabaseManager call and the state it started in
    result,          \* what the last DatabaseManager call returned
    closed,          \* the later of close_connection and DatabaseManager(...) was a close
    original,        \* object and dbpath of the first successful construction
    ncalls           \* number of DatabaseManager calls so far

parser_vars == << _execution_id, _event_id, _variable_id, _heartbeat_id,
                  alloc, resolved, seed, last, kinds, before, nrec >>

manager_vars == << _instances, objects, schema, call, result, closed, original, ncalls >>

vars == << _execution_id, _event_id, _variable_id, _heartbeat_id, db, sink,
           outcome, log, alloc, resolved, seed, last, kinds, before, nrec,
           _instances, objects, schema, call, result, closed, original, ncalls >>

(***************************************************************************)
(* Bounds                                                                  *)
(***************************************************************************)
MaxRecords == 3     \* parse_object calls in one run
MaxAccept == 2      \* a limited sink accepts at most this many rows
MaxCalls == 4       \* DatabaseManager calls in one run

(***************************************************************************)
(* Python values                                                           *)
(***************************************************************************)
\* Python's None in a text-valued place.
None == "None"

\* Python's None in an integer-valued place.
NoneInt == 0 - 1

\* dict.get(k): the value under k, None when the key is absent.
get(obj, k) == IF k \in DOMAIN obj THEN obj[k] ELSE None

\* ProfilerObjectParser._states
_states == [start |-> 0, done |-> 1, pause |-> 2]

\* self._states.get(token, 0): a default of 0 where None is meant.
states_get_default(token) == IF token \in DOMAIN _states THEN _states[token] ELSE 0

\* self._states.get(token)
states_get(token) == IF token \in DOMAIN _states THEN _states[token] ELSE NoneInt

(***************************************************************************)
(* The storage sink.  A row handed to insert is kept as the parser built   *)
(* it (data); the sink numbers the rows of each table (serial), which is   *)
(* the value of an id column the parser's row does not carry.              *)
(***************************************************************************)
RECURSIVE count_rows(_, _)
count_rows(rows, table) ==
    IF rows = << >> THEN 0
    ELSE (IF Head(rows).table = table THEN 1 ELSE 0) + count_rows(Tail(rows), table)

select_rows(rows, table) == SelectSeq(rows, LAMBDA r : r.table = table)

\* The fixed type catalog (table mal_type).
mal_type == { [type_id |-> 1, name |-> "int"], [type_id |-> 2, name |-> "str"] }

raise(m, exception) == [m EXCEPT !.exc = exception]

warn(m, message) == [m EXCEPT !.log = Append(@, message)]

\* mdbl.insert(table, data, client=self._db); a sink that rejects the row
\* raises monetdblite.Error.  Nothing runs once an exception is in flight.
mdbl_insert(m, table, pytype, data) ==
    IF m.exc # "" THEN m
    ELSE IF m.sink.limited /\ m.sink.left = 0 THEN raise(m, "monetdblite.Error")
    ELSE [m EXCEPT
            !.db = Append(@, [table |-> table, pytype |-> pytype, data |-> data,
                              serial |-> count_rows(m.db, table) + 1]),
            !.sink = [@ EXCEPT !.left = IF m.sink.limited THEN @ - 1 ELSE @]]

\* The value of a row's id column: mal_execution rows carry execution_id; the
\* rows of the other tables carry no id, and hold the number the sink gave them.
row_id(r) == IF r.table = "mal_execution" THEN r.data.execution_id ELSE r.serial

\* SELECT variable_id FROM mal_variable WHERE name=?
RECURSIVE select_variable_id(_, _)
select_variable_id(rows, name) ==
    IF rows = << >> THEN << >>
    ELSE LET r == Head(rows)
             rest == select_variable_id(Tail(rows), name)
         IN IF r.table = "mal_variable" /\ r.data.name = name
            THEN << row_id(r) >> \o rest
            ELSE rest

\* SELECT type_id FROM mal_type WHERE name=?
select_type_id(name) ==
    IF \E t \in mal_type : t.name = name
    THEN << (CHOOSE t \in mal_type : t.name = name).type_id >>
    ELSE << >>

(***************************************************************************)
(* ProfilerObjectParser._parse_trace                                       *)
(***************************************************************************)
\* self._<kind>_id =+ 1: an assignment of 1 where an increment is meant.
increment_assign(m, kind) ==
    [m EXCEPT ![kind] = 1, !.alloc = Append(@, [kind |-> kind, id |-> 1])]

\* self._<kind>_id += 1
increment(m, kind) ==
    LET id == m[kind] + 1
    IN [m EXCEPT ![kind] = id, !.alloc = Append(@, [kind |-> kind, id |-> id])]

var_list_tables == [ret |-> "return_variable_list", arg |-> "argument_variable_list"]

\* The row built for a variable seen for the first time.
variable_data(m, var, type_id) ==
    [ name |-> get(var, "name"),
      mal_execution_id |-> m._execution_id,
      alias |-> get(var, "alias"),
      type_id |-> type_id,
      is_persistent |-> ("kind" \in DOMAIN var /\ var.kind = "persistent"),
      bid |-> get(var, "bid"),
      var_count |-> get(var, "count"),
      var_size |-> get(var, "size"),
      seqbase |-> get(var, "seqbase"),
      hghbase |-> get(var, "hghbase"),
      eol |-> ("eol" \in DOMAIN var /\ var.eol = 0) ]

var_list_data(m, var, current_var_id) ==
    [ variable_list_index |-> get(var, "index"),
      event_id |-> m._event_id,
      variable_id |-> current_var_id ]

\* mdbl.insert(var_list_tables[var_list_field], var_list_data, client=self._db)
insert_var_list(m, var, var_list_field, current_var_id) ==
    LET stored == mdbl_insert(m, var_list_tables[var_list_field], "dict",
                              var_list_data(m, var, current_var_id))
    IN IF stored.exc # "" THEN stored
       ELSE [stored EXCEPT
                !.resolved = @ \cup { [name |-> var.name, id |-> current_var_id] }]

\* The first-sight branch without its length check: r['type_id'][0] on an
\* empty result raises IndexError.
new_variable_unchecked(m, var, var_list_field) ==
    IF "type" \notin DOMAIN var THEN raise(m, "KeyError")
    ELSE LET r == select_type_id(var.type)
         IN IF Len(r) = 0
            THEN raise(m, "IndexError")
            ELSE insert_var_list(
                     mdbl_insert(m, "mal_variable", "dict", variable_data(m, var, r[1])),
                     var, var_list_field, m._variable_id)

\* The type part of the first-sight branch, entered after the counter moved.
new_variable(m, var, var_list_field) ==
    IF "type" \notin DOMAIN var THEN raise(m, "KeyError")
    ELSE LET r == select_type_id(var.type)
         IN IF Len(r) = 0
            THEN warn(warn(m, "Unkown type"), "Ignoring variable")
            ELSE insert_var_list(
                     mdbl_insert(m, "mal_variable", "dict", variable_data(m, var, r[1])),
                     var, var_list_field, m._variable_id)

\* One pass of the body of `for var in var_list`.
process_var(m, var, var_list_field) ==
    IF m.exc # "" THEN m
    ELSE IF "name" \notin DOMAIN var THEN raise(m, "KeyError")
    ELSE LET r == select_variable_id(m.db, var.name)
         IN IF Len(r) = 0
            THEN new_variable(increment(m, "_variable_id"), var, var_list_field)
            ELSE insert_var_list(m, var, var_list_field, r[1])

RECURSIVE process_var_list(_, _, _)
process_var_list(m, var_list, var_list_field) ==
    IF var_list = << >> THEN m
    ELSE process_var_list(process_var(m, Head(var_list), var_list_field),
                          Tail(var_list), var_list_field)

\* for var_list_field in ('ret', 'arg')
process_var_lists(m, json_object) ==
    LET ret == IF "ret" \in DOMAIN json_object THEN json_object.ret ELSE << >>
        arg == IF "arg" \in DOMAIN json_object THEN json_object.arg ELSE << >>
    IN process_var_list(process_var_list(m, ret, "ret"), arg, "arg")

\* The prerequisite loop with the two columns of the edge exchanged.
RECURSIVE insert_prereqs_swapped(_, _)
insert_prereqs_swapped(m, prereqs) ==
    IF prereqs = << >> THEN m
    ELSE insert_prereqs_swapped(
             mdbl_insert(m, "prerequisite_events", "dict",
                         [prerequisite_event |-> m._event_id,
                          consequent_event |-> Head(prereqs)]),
             Tail(prereqs))

RECURSIVE insert_prereqs(_, _)
insert_prereqs(m, prereqs) ==
    IF prereqs = << >> THEN m
    ELSE insert_prereqs(
             mdbl_insert(m, "prerequisite_events", "dict",
                         [prerequisite_event |-> Head(prereqs),
                          consequent_event |-> m._event_id]),
             Tail(prereqs))

\* for prereq in json_object.get('prereq'): iterating None raises TypeError.
process_prereqs(m, json_object) ==
    IF m.exc # "" THEN m
    ELSE IF "prereq" \notin DOMAIN json_object THEN raise(m, "TypeError")
    ELSE insert_prereqs(m, json_object.prereq)

execution_data(m, json_object) ==
    [ execution_id |-> m._execution_id,
      server_session |-> get(json_object, "session"),
      tag |-> get(json_object, "tag") ]

event_data(m, json_object) ==
    [ mal_execution_id |-> m._execution_id,
      pc |-> get(json_object, "pc"),
      execution_state |-> states_get(get(json_object, "state")),
      clk |-> get(json_object, "clk"),
      ctime |-> get(json_object, "ctime"),
      thread |-> get(json_object, "thread"),
      mal_function |-> get(json_object, "function"),
      usec |-> get(json_object, "usec"),
      rss |-> get(json_object, "rss"),
      type_size |-> get(json_object, "size"),
      long_statement |-> get(json_object, "stmt"),
      short_statement |-> get(json_object, "short") ]

_parse_trace(m, json_object) ==
    LET counted == increment(increment(m, "_execution_id"), "_event_id")
        execution == mdbl_insert(counted, "mal_execution", "dict",
                                 execution_data(counted, json_object))
        event == mdbl_insert(execution, "profiler_event", "dict",
                             event_data(execution, json_object))
    IN process_var_lists(process_prereqs(event, json_object), json_object)

(***************************************************************************)
(* ProfilerObjectParser._parse_heartbeat                                   *)
(***************************************************************************)
data_keys == << "server_session", "clk", "ctime", "rss", "nvcsw" >>

\* {(k, json_object.get(k)) for k in data_keys}: a set of pairs, not a dict.
heartbeat_data(json_object) ==
    { << data_keys[i], get(json_object, data_keys[i]) >> : i \in 1..Len(data_keys) }

RECURSIVE insert_cpuload(_, _)
insert_cpuload(m, cpuload) ==
    IF cpuload = << >> THEN m
    ELSE insert_cpuload(
             mdbl_insert(m, "cpuload", "dict",
                         [heartbeat_id |-> m._heartbeat_id, val |-> Head(cpuload)]),
             Tail(cpuload))

\* _parse_heartbeat counting on the event counter as well.
_parse_heartbeat_shared(m, json_object) ==
    LET counted == increment(increment(m, "_heartbeat_id"), "_event_id")
        stored == mdbl_insert(counted, "heartbeat", "set", heartbeat_data(json_object))
    IN IF stored.exc # "" THEN stored
       ELSE IF "cpuload" \notin DOMAIN json_object THEN raise(stored, "KeyError")
       ELSE insert_cpuload(stored, json_object.cpuload)

_parse_heartbeat(m, json_object) ==
    LET counted == increment(m, "_heartbeat_id")
        stored == mdbl_insert(counted, "heartbeat", "set", heartbeat_data(json_object))
    IN IF stored.exc # "" THEN stored
       ELSE IF "cpuload" \notin DOMAIN json_object THEN raise(stored, "KeyError")
       ELSE insert_cpuload(stored, json_object.cpuload)

(***************************************************************************)
(* ProfilerObjectParser.parse_object                                       *)
(***************************************************************************)
\* json.loads: text that is no JSON raises JSONDecodeError; a JSON object
\* decodes to a dict, any other JSON value to something that is not a dict.
json_loads(json_string) ==
    IF json_string.text = "malformed" THEN [error |-> TRUE]
    ELSE IF json_string.text = "object"
         THEN [error |-> FALSE, pytype |-> "dict", value |-> json_string.obj]
         ELSE [error |-> FALSE, pytype |-> "list"]

\* dispatcher[source](json_object), inside `try: ... except KeyError`.
dispatch(m, source, json_object) ==
    LET done == IF source = "trace" THEN _parse_trace(m, json_object)
                ELSE IF source = "heartbeat" THEN _parse_heartbeat(m, json_object)
                ELSE raise(m, "KeyError")
    IN IF done.exc = "KeyError"
       THEN warn(raise(done, ""), "Unkown JSON object kind")
       ELSE done

\* A propagating JSONDecodeError: what parse_object does without its except clause.
decode_error_raised(m) == raise(m, "JSONDecodeError")

\* except json.JSONDecodeError: log and return.
decode_error(m) == warn(m, "W001: Cannot parse object")

parse_object(m, json_string) ==
    LET decoded == json_loads(json_string)
    IN IF decoded.error THEN decode_error(m)
       ELSE IF decoded.pytype # "dict" THEN raise(m, "AttributeError")
       ELSE LET json_object == decoded.value
                source == get(json_object, "source")
            IN IF source = None
               THEN IF "source" \in DOMAIN json_object
                    THEN warn(m, "Unkown JSON object")
                    ELSE raise(warn(m, "Unkown JSON object"), "KeyError")
               ELSE dispatch(m, source, json_object)

(***************************************************************************)
(* DatabaseManager.get_limits and create_parser                            *)
(***************************************************************************)
RECURSIVE max_of(_)
max_of(ids) ==
    IF ids = << >> THEN 0
    ELSE LET rest == max_of(Tail(ids))
         IN IF Head(ids) > rest THEN Head(ids) ELSE rest

RECURSIVE id_column(_, _)
id_column(rows, table) ==
    IF rows = << >> THEN << >>
    ELSE LET r == Head(rows)
             rest == id_column(Tail(rows), table)
         IN IF r.table = table THEN << row_id(r) >> \o rest ELSE rest

\* [(x[0][0] or 0) for x in results], one MAX query per kind.
get_limits(rows) ==
    [ _execution_id |-> max_of(id_column(rows, "mal_execution")),
      _event_id |-> max_of(id_column(rows, "profiler_event")),
      _variable_id |-> max_of(id_column(rows, "mal_variable")),
      _heartbeat_id |-> max_of(id_column(rows, "heartbeat")) ]

(***************************************************************************)
(* Input records                                                           *)
(***************************************************************************)
x_int == [name |-> "x", type |-> "int"]
y_int == [name |-> "y", type |-> "int"]
x_frob == [name |-> "x", type |-> "frobnicator"]
y_frob == [name |-> "y", type |-> "frobnicator"]
no_name == [type |-> "int"]
y_no_type == [name |-> "y"]

ArgLists ==
    { << x_int >>, << y_frob >>, << no_name >>,
      << x_int, x_int >>, << x_int, x_frob >>, << x_int, y_no_type >>,
      << x_int, y_frob, x_int >>, << y_frob, x_int, x_int >> }

object(obj) == [text |-> "object", obj |-> obj]

Traces ==
    { object([source |-> "trace", session |-> "s1", tag |-> "t1", state |-> "pause",
              prereq |-> << >>, arg |-> a]) : a \in ArgLists }
    \cup
    { object([source |-> "trace", session |-> "s1", tag |-> "t1", prereq |-> << >>,
              ret |-> << x_int >>, arg |-> << x_int >>]),
      object([source |-> "trace", session |-> "s1", tag |-> "t1", prereq |-> << >>,
              ret |-> << y_int >>, arg |-> << x_int, y_frob >>]),
      object([source |-> "trace", session |-> "s1", tag |-> "t1", state |-> "start",
              prereq |-> << >>]),
      object([source |-> "trace", session |-> "s1", tag |-> "t1", state |-> "bogus",
              prereq |-> << 7, 8 >>, arg |-> << x_int >>]),
      object([source |-> "trace", session |-> "s1", tag |-> "t1", state |-> "done",
              arg |-> << x_int >>]) }

Heartbeats ==
    { object([source |-> "heartbeat", session |-> "s1", clk |-> "c1", ctime |-> "w1",
              rss |-> "r1", nvcsw |-> "n1", cpuload |-> c]) :
        c \in { << >>, << 10, 20, 30 >> } }
    \cup
    { object([source |-> "heartbeat", session |-> "s1", clk |-> "c1", ctime |-> "w1",
              rss |-> "r1", nvcsw |-> "n1"]) }

Others ==
    { [text |-> "malformed"], [text |-> "array"],
      object([tag |-> "t1"]), object([source |-> "query"]) }

Inputs == Traces \cup Heartbeats \cup Others

\* A trace record as the interface describes it: prereq present, and every
\* entry of ret and arg carrying a name and a type.
entries(json_object) ==
    (IF "ret" \in DOMAIN json_object THEN json_object.ret ELSE << >>)
    \o (IF "arg" \in DOMAIN json_object THEN json_object.arg ELSE << >>)

well_formed_trace(json_string) ==
    /\ json_string.text = "object"
    /\ "source" \in DOMAIN json_string.obj
    /\ json_string.obj.source = "trace"
    /\ "prereq" \in DOMAIN json_string.obj
    /\ \A i \in 1..Len(entries(json_string.obj)) :
          {"name", "type"} \subseteq DOMAIN entries(json_string.obj)[i]

kind_of(json_string) ==
    IF json_string.text = "malformed" THEN "malformed"
    ELSE IF well_formed_trace(json_string) THEN "trace"
    ELSE "other"

(***************************************************************************)
(* The state machine                                                       *)
(***************************************************************************)
Sinks ==
    { [limited |-> FALSE, left |-> 0] }
    \cup { [limited |-> TRUE, left |-> k] : k \in 0..MaxAccept }

\* The tables _initialize_tables looks for.
tables == << "mal_execution", "profiler_event", "prerequisite_events", "mal_type",
             "mal_variable", "event_variable_list", "heartbeat", "cpuload" >>

no_call == [op |-> "none"]

no_result == [kind |-> "none"]

\* No DatabaseManager has been constructed; the parser was handed the database.
no_manager ==
    /\ _instances = { }
    /\ objects = << >>
    /\ call = no_call
    /\ result = no_result
    /\ closed = FALSE
    /\ original = no_result
    /\ ncalls = 0

counters == [ _execution_id |-> _execution_id, _event_id |-> _event_id,
              _variable_id |-> _variable_id, _heartbeat_id |-> _heartbeat_id ]

\* ProfilerObjectParser.__init__(self, db)
Init ==
    /\ _event_id = 0
    /\ _heartbeat_id = 0
    /\ _execution_id = 0
    /\ _variable_id = 0
    /\ db = << >>
    /\ sink \in Sinks
    /\ outcome = "return"
    /\ log = << >>
    /\ alloc = << >>
    /\ resolved = { }
    /\ seed = get_limits(<< >>)
    /\ last = [text |-> "none"]
    /\ kinds = << >>
    /\ before = [counters |-> counters, rows |-> 0]
    /\ nrec = 0
    /\ schema = { tables[i] : i \in 1..Len(tables) }
    /\ no_manager

\* parser.parse_object(json_string)
ParseObject(json_string) ==
    /\ nrec < MaxRecords
    /\ \E m \in { parse_object(
                    [ _execution_id |-> _execution_id, _event_id |-> _event_id,
                      _variable_id |-> _variable_id, _heartbeat_id |-> _heartbeat_id,
                      db |-> db, sink |-> sink, exc |-> "", log |-> << >>,
                      alloc |-> alloc, resolved |-> resolved ],
                    json_string) } :
          /\ _execution_id' = m._execution_id
          /\ _event_id' = m._event_id
          /\ _variable_id' = m._variable_id
          /\ _heartbeat_id' = m._heartbeat_id
          /\ db' = m.db
          /\ sink' = m.sink
          /\ outcome' = IF m.exc = "" THEN "return" ELSE m.exc
          /\ log' = m.log
          /\ alloc' = m.alloc
          /\ resolved' = m.resolved
    /\ last' = json_string
    /\ kinds' = Append(kinds, kind_of(json_string))
    /\ before' = [counters |-> counters, rows |-> Len(db)]
    /\ nrec' = nrec + 1
    /\ UNCHANGED << seed, manager_vars >>

\* A new ProfilerObjectParser(db) on the same database: a new session.
NewParser ==
    /\ nrec < MaxRecords
    /\ alloc # << >>
    /\ _event_id' = 0
    /\ _heartbeat_id' = 0
    /\ _execution_id' = 0
    /\ _variable_id' = 0
    /\ alloc' = << >>
    /\ resolved' = { }
    /\ seed' = get_limits(db)
    /\ outcome' = "return"
    /\ log' = << >>
    /\ last' = [text |-> "none"]
    /\ kinds' = Append(kinds, "new parser")
    /\ before' = [counters |-> [k \in DOMAIN counters |-> 0], rows |-> Len(db)]
    /\ UNCHANGED << db, sink, nrec, manager_vars >>

\* DatabaseManager.create_parser: ProfilerObjectParser(*self.get_limits())
\* hands four arguments to a constructor that takes one.  It is how a session
\* is meant to start, so it is tried before the parser has allocated anything.
create_parser ==
    /\ alloc = << >>
    /\ outcome # "TypeError: __init__"
    /\ outcome' = "TypeError: __init__"
    /\ log' = << >>
    /\ last' = [text |-> "none"]
    /\ before' = [counters |-> counters, rows |-> Len(db)]
    /\ UNCHANGED << _execution_id, _event_id, _variable_id, _heartbeat_id, db, sink,
                    alloc, resolved, seed, kinds, nrec, manager_vars >>

Next ==
    \/ \E json_string \in Inputs : ParseObject(json_string)
    \/ NewParser
    \/ create_parser

Spec == Init /\ [][Next]_vars

(***************************************************************************)
(* DatabaseManager (db_manager.py).  A call works on g: the registry, the  *)
(* objects, the database (schema, db, sink), the exception in flight, the  *)
(* log and the value returned.                                             *)
(***************************************************************************)
manager == (CHOOSE e \in _instances : e.cls = "DatabaseManager").obj

\* def is_connected(self): return self._connection is not None
is_connected(g, o) == g.objects[o]._connection # None

\* self._connection = monetdblite.make_connection(self._dbpath, True)
_connect(g, o) == [g EXCEPT !.objects[o]._connection = "connection"]

\* What running data/tables.sql can leave behind: every table, some table
\* missing, or monetdblite.Error and nothing (rolled back).
ScriptOutcomes ==
    { [error |-> FALSE, created |-> { tables[i] : i \in 1..Len(tables) }],
      [error |-> FALSE, created |-> { tables[i] : i \in 1..(Len(tables) - 1) }],
      [error |-> TRUE, created |-> { }] }

\* The table check of _initialize_tables, from table number i on.
RECURSIVE check_tables(_, _)
check_tables(g, i) ==
    IF i > Len(tables) THEN g
    ELSE IF tables[i] \notin g.schema
         THEN raise(warn(g, "Table does not exist in database"), "InitializationError")
    ELSE check_tables(g, i + 1)

_initialize_tables(g, o, script) ==
    LET ran == IF script.error
               THEN warn(g, "Table initialization script failed")
               ELSE [g EXCEPT !.schema = @ \cup script.created]
    IN check_tables(ran, 1)

\* DatabaseManager.__init__(self, dbpath): the object gets the next number.
__init__(g, dbpath, script) ==
    LET made == [g EXCEPT !.objects = Append(@, [_dbpath |-> dbpath,
                                                 _connection |-> None])]
        o == Len(made.objects)
    IN _initialize_tables(_connect(made, o), o, script)

\* Singleton.__call__ that registers the object before it is initialized.
__call___registered_first(g, dbpath, script) ==
    LET made == IF g._instances = { } THEN __init__(g, dbpath, script) ELSE g
        registered ==
            IF g._instances = { }
            THEN [made EXCEPT !._instances = { [cls |-> "DatabaseManager",
                                                obj |-> Len(made.objects)] }]
            ELSE made
    IN IF registered.exc # "" THEN registered
       ELSE LET obj == (CHOOSE e \in registered._instances : TRUE).obj
                connected == IF ~is_connected(registered, obj)
                             THEN _connect(registered, obj) ELSE registered
            IN [connected EXCEPT !.result = [kind |-> "object", obj |-> obj]]

\* Singleton.__call__ without the reconnection.
__call___no_reconnect(g, dbpath, script) ==
    LET made == IF g._instances = { } THEN __init__(g, dbpath, script) ELSE g
        registered ==
            IF g._instances = { } /\ made.exc = ""
            THEN [made EXCEPT !._instances = { [cls |-> "DatabaseManager",
                                                obj |-> Len(made.objects)] }]
            ELSE made
    IN IF registered.exc # "" THEN registered
       ELSE LET obj == (CHOOSE e \in registered._instances : TRUE).obj
            IN [registered EXCEPT !.result = [kind |-> "object", obj |-> obj]]

\* Singleton.__call__(cls, dbpath): an exception in __init__ leaves before
\* the assignment to cls._instances[cls].
__call__(g, dbpath, script) ==
    LET made == IF g._instances = { } THEN __init__(g, dbpath, script) ELSE g
        registered ==
            IF g._instances = { } /\ made.exc = ""
            THEN [made EXCEPT !._instances = { [cls |-> "DatabaseManager",
                                                obj |-> Len(made.objects)] }]
            ELSE made
    IN IF registered.exc # "" THEN registered
       ELSE LET obj == (CHOOSE e \in registered._instances : TRUE).obj
                connected == IF ~is_connected(registered, obj)
                             THEN _connect(registered, obj) ELSE registered
            IN [connected EXCEPT !.result = [kind |-> "object", obj |-> obj]]

\* self._connection.close(); self._connection = None
close_connection(g, o) ==
    IF ~is_connected(g, o) THEN raise(g, "AttributeError")
    ELSE [g EXCEPT !.objects[o]._connection = None, !.result = [kind |-> "None"]]

Queries ==
    { "SELECT count(*) FROM profiler_event",
      "SELECT MAX(execution_id) FROM mal_execution",
      "This is not a correct SQL query" }

\* cursor.execute(query); cursor.fetchall()
fetchall(rows, query) ==
    IF query = "SELECT count(*) FROM profiler_event"
    THEN [error |-> FALSE, rows |-> << << count_rows(rows, "profiler_event") >> >>]
    ELSE IF query = "SELECT MAX(execution_id) FROM mal_execution"
    THEN [error |-> FALSE,
          rows |-> << << IF id_column(rows, "mal_execution") = << >> THEN NoneInt
                         ELSE max_of(id_column(rows, "mal_execution")) >> >>]
    ELSE [error |-> TRUE]

\* execute_query without the except clause.
execute_query_uncaught(g, o, query) ==
    IF ~is_connected(g, o) THEN raise(g, "AttributeError")
    ELSE LET fetched == fetchall(g.db, query)
         IN IF fetched.error THEN raise(g, "monetdblite.Error")
            ELSE [g EXCEPT !.result = [kind |-> "rows", rows |-> fetched.rows]]

\* DatabaseManager.execute_query: the cursor is taken outside the try block.
execute_query(g, o, query) ==
    IF ~is_connected(g, o) THEN raise(g, "AttributeError")
    ELSE LET fetched == fetchall(g.db, query)
         IN IF fetched.error
            THEN [warn(g, "query failed") EXCEPT !.result = [kind |-> "None"]]
            ELSE [g EXCEPT !.result = [kind |-> "rows", rows |-> fetched.rows]]

\* DatabaseManager.get_cursor
get_cursor(g, o) ==
    IF ~is_connected(g, o) THEN raise(g, "AttributeError")
    ELSE [g EXCEPT !.result = [kind |-> "cursor"]]

\* DatabaseManager.get_limits as called: the list of the four maxima.
limits(g, o) ==
    IF ~is_connected(g, o) THEN raise(g, "AttributeError")
    ELSE LET l == get_limits(g.db)
         IN [g EXCEPT !.result = [kind |-> "list",
                                  list |-> << l._execution_id, l._event_id,
                                              l._variable_id, l._heartbeat_id >>]]

\* insert_data without the connection test.
insert_data_unguarded(g, o, table, data) ==
    LET inserted == mdbl_insert(g, table, "dict", data)
    IN IF inserted.exc = "monetdblite.Error"
       THEN [warn(warn(inserted, "insertion failed"), "data") EXCEPT
                !.exc = "", !.result = [kind |-> "None"]]
       ELSE [inserted EXCEPT !.result = [kind |-> "None"]]

\* DatabaseManager.insert_data(table, data)
insert_data(g, o, table, data) ==
    IF ~is_connected(g, o) THEN raise(g, "DatabaseManagerError")
    ELSE LET inserted == mdbl_insert(g, table, "dict", data)
         IN IF inserted.exc = "monetdblite.Error"
            THEN [warn(warn(inserted, "insertion failed"), "data") EXCEPT
                     !.exc = "", !.result = [kind |-> "None"]]
            ELSE [inserted EXCEPT !.result = [kind |-> "None"]]

(***************************************************************************)
(* The DatabaseManager state machine                                       *)
(***************************************************************************)
DbPaths == { "/tmp/a", "/tmp/b" }

\* The rows a caller hands to insert_data.
DataRows ==
    { [table |-> "mal_execution",
       data |-> [execution_id |-> e, server_session |-> "s1", tag |-> "t1"]]
        : e \in 1..2 }
    \cup { [table |-> "profiler_event", data |-> [mal_execution_id |-> 1, pc |-> 0]] }

\* A process that has not constructed a DatabaseManager yet, on a new database.
InitManager ==
    /\ _event_id = 0
    /\ _heartbeat_id = 0
    /\ _execution_id = 0
    /\ _variable_id = 0
    /\ db = << >>
    /\ sink \in Sinks
    /\ outcome = "return"
    /\ log = << >>
    /\ alloc = << >>
    /\ resolved = { }
    /\ seed = get_limits(<< >>)
    /\ last = [text |-> "none"]
    /\ kinds = << >>
    /\ before = [counters |-> counters, rows |-> 0]
    /\ nrec = 0
    /\ schema = { }
    /\ no_manager

\* The state a call starts in.
g0 == [ _instances |-> _instances, objects |-> objects, schema |-> schema,
        db |-> db, sink |-> sink, exc |-> "", log |-> << >>,
        result |-> no_result ]

\* What every call leaves behind: g is the state the operation ended in.
Called(g, op, arg) ==
    /\ ncalls < MaxCalls
    /\ _instances' = g._instances
    /\ objects' = g.objects
    /\ schema' = g.schema
    /\ db' = g.db
    /\ sink' = g.sink
    /\ outcome' = IF g.exc = "" THEN "return" ELSE g.exc
    /\ log' = g.log
    /\ result' = IF g.exc = "" THEN g.result ELSE no_result
    /\ call' = [ op |-> op, arg |-> arg,
                 registered |-> _instances # { },
                 connected |-> _instances # { } /\ is_connected(g0, manager),
                 rows |-> db, nobjects |-> Len(objects),
                 prev |-> IF call.op = "execute_query" THEN call.arg ELSE call.op ]
    /\ closed' = IF op = "close_connection" THEN TRUE
                 ELSE IF op = "DatabaseManager" THEN FALSE
                 ELSE closed
    /\ original' = IF _instances = { } /\ g._instances # { }
                   THEN [kind |-> "object", obj |-> Len(g.objects), dbpath |-> arg]
                   ELSE original
    /\ ncalls' = ncalls + 1
    /\ UNCHANGED parser_vars

\* db_manager.DatabaseManager(dbpath)
DatabaseManager(dbpath, script) ==
    \E g \in { __call__(g0, dbpath, script) } : Called(g, "DatabaseManager", dbpath)

CloseConnection ==
    /\ _instances # { }
    /\ \E g \in { close_connection(g0, manager) } : Called(g, "close_connection", "")

ExecuteQuery(query) ==
    /\ _instances # { }
    /\ \E g \in { execute_query(g0, manager, query) } : Called(g, "execute_query", query)

GetCursor ==
    /\ _instances # { }
    /\ \E g \in { get_cursor(g0, manager) } : Called(g, "get_cursor", "")

GetLimits ==
    /\ _instances # { }
    /\ \E g \in { limits(g0, manager) } : Called(g, "get_limits", "")

InsertData(row) ==
    /\ _instances # { }
    /\ \E g \in { insert_data(g0, manager, row.table, row.data) } :
          Called(g, "insert_data", row.table)

NextManager ==
    \/ \E dbpath \in DbPaths, script \in ScriptOutcomes : DatabaseManager(dbpath, script)
    \/ CloseConnection
    \/ \E query \in Queries : ExecuteQuery(query)
    \/ GetCursor
    \/ GetLimits
    \/ \E row \in DataRows : InsertData(row)

SpecManager == InitManager /\ [][NextManager]_vars

(***************************************************************************)
(* Vocabulary of the properties                                            *)
(***************************************************************************)
\* The rows the sink accepted during the last call, and those it held before.
new_rows == SubSeq(db, before.rows + 1, Len(db))
old_rows == SubSeq(db, 1, before.rows)

is_object(json_string) == json_string.text = "object"

has_source(json_string, source) ==
    /\ is_object(json_string)
    /\ "source" \in DOMAIN json_string.obj
    /\ json_string.obj.source = source

recognized(var) == Len(select_type_id(var.type)) > 0

\* The positions, in ret followed by arg, of the entries of unrecognized type.
bad_entries(json_object) ==
    { i \in 1..Len(entries(json_object)) : ~recognized(entries(json_object)[i]) }

list_rows(rows) ==
    SelectSeq(rows, LAMBDA r : r.table \in {"return_variable_list",
                                            "argument_variable_list"})

no_new_parser == \A i \in 1..Len(kinds) : kinds[i] # "new parser"

(***************************************************************************)
(* C1 .. C10                                                               *)
(***************************************************************************)
\* C1 (resumability): every id this parser allocated is strictly greater than
\* the maximum of its kind that the sink held when the parser was constructed.
C1_IdsAboveSeed ==
    \A i \in 1..Len(alloc) : alloc[i].id > seed[alloc[i].kind]

\* C2 (allocator, one session): no counter decreases over a call; the ids of
\* each kind are handed out as 1, 2, 3, ... with no gap and no repeat, whatever
\* the records were and however their processing ended; and the rows of a call
\* carry execution ids allocated in that call, never an earlier record's.
C2_AllocatorMonotonic ==
    /\ \A kind \in DOMAIN counters :
          /\ counters[kind] >= before.counters[kind]
          /\ LET ids == SelectSeq(alloc, LAMBDA a : a.kind = kind)
             IN /\ Len(ids) = counters[kind]
                /\ \A i \in 1..Len(ids) : ids[i].id = i
    /\ \A i \in 1..Len(new_rows) :
          /\ new_rows[i].table = "mal_execution"
                => new_rows[i].data.execution_id > before.counters._execution_id
          /\ new_rows[i].table \in {"profiler_event", "mal_variable"}
                => new_rows[i].data.mal_execution_id > before.counters._execution_id

\* C2's case: an earlier record of the session lost a variable id to a failure
\* partway, and the last record allocated a variable id after it.
C2_Witness ==
    /\ no_new_parser
    /\ before.counters._variable_id > count_rows(old_rows, "mal_variable")
    /\ _variable_id > before.counters._variable_id
    /\ outcome = "return"

\* C3 (dedup idempotence): within a session a variable name is written into
\* list entries under one id only, and has at most one Variable row.
C3_OneIdPerName ==
    /\ \A p \in resolved : \A q \in resolved : p.name = q.name => p.id = q.id
    /\ \A p \in resolved : Len(select_variable_id(db, p.name)) <= 1

\* The scenario of C4: a well-formed trace, a sink that accepts every row, and
\* exactly one entry of unrecognized type among the entries of ret and arg.
C4_Scenario ==
    /\ kind_of(last) = "trace"
    /\ ~sink.limited
    /\ Cardinality(bad_entries(last.obj)) = 1

C4_Isolated ==
    LET N == Len(entries(last.obj))
    IN /\ Len(list_rows(new_rows)) = N - 1
       /\ Len(select_rows(new_rows, "mal_variable")) <= N - 1
       /\ Len(select_rows(new_rows, "mal_execution")) = 1
       /\ Len(select_rows(new_rows, "profiler_event")) = 1

\* The name of the entry of unrecognized type is not registered when the
\* entry is resolved: no Variable row held it before the call, and no entry
\* ahead of it in the record has the same name.
C4_BadNameUnregistered ==
    \A i \in bad_entries(last.obj) :
        /\ Len(select_variable_id(old_rows, entries(last.obj)[i].name)) = 0
        /\ \A j \in 1..(i - 1) :
              entries(last.obj)[j].name # entries(last.obj)[i].name

\* C4 as claimed (unknown-type isolation): such a trace yields exactly N-1 list
\* entries, at most N-1 new Variable rows, and its Execution and Event rows.
C4_Original == C4_Scenario => C4_Isolated

\* C4 as amended: the same, for an entry whose name is not yet registered.
C4_UnknownTypeIsolation == (C4_Scenario /\ C4_BadNameUnregistered) => C4_Isolated

\* C4's case: three entries, the middle one of unrecognized type and new name.
C4_Witness ==
    /\ C4_Scenario
    /\ C4_BadNameUnregistered
    /\ Len(entries(last.obj)) = 3
    /\ bad_entries(last.obj) = {2}
    /\ Len(list_rows(new_rows)) = 2

\* C5 (failed type resolution changes nothing): after a trace whose entries
\* all have an unregistered name and an unrecognized type, the variable
\* counter is what it was, no Variable row was added, no name was registered.
C5_FailedResolutionFrame ==
    ( /\ kind_of(last) = "trace"
      /\ ~sink.limited
      /\ entries(last.obj) # << >>
      /\ \A i \in 1..Len(entries(last.obj)) :
            /\ ~recognized(entries(last.obj)[i])
            /\ Len(select_variable_id(old_rows, entries(last.obj)[i].name)) = 0 )
    => /\ _variable_id = before.counters._variable_id
       /\ Len(select_rows(new_rows, "mal_variable")) = 0
       /\ \A i \in 1..Len(entries(last.obj)) :
             Len(select_variable_id(db, entries(last.obj)[i].name)) = 0

\* C6 (malformed-input isolation): text that does not decode makes parse_object
\* return normally with no row added and no counter moved; and the stream
\* [valid trace, malformed, valid trace] leaves exactly two executions, 1 and 2.
C6_MalformedIsolation ==
    /\ last.text = "malformed"
          => /\ outcome = "return"
             /\ Len(db) = before.rows
             /\ counters = before.counters
    /\ (kinds = << "trace", "malformed", "trace" >> /\ ~sink.limited)
          => /\ outcome = "return"
             /\ id_column(db, "mal_execution") = << 1, 2 >>
             /\ _execution_id = 2

\* C6's case: the stream [valid, malformed, valid] has been processed.
C6_Witness ==
    /\ kinds = << "trace", "malformed", "trace" >>
    /\ ~sink.limited
    /\ Len(select_rows(db, "mal_execution")) = 2

\* C7 (unrecognized kind): an object whose source is absent, or is neither
\* trace nor heartbeat, is dropped: parse_object returns normally, no row is
\* added, no counter moves.
C7_UnrecognizedDropped ==
    ( /\ is_object(last)
      /\ ~has_source(last, "trace")
      /\ ~has_source(last, "heartbeat") )
    => /\ outcome = "return"
       /\ Len(db) = before.rows
       /\ counters = before.counters

\* The bad records C8 lists.
C8_BadRecord ==
    \/ last.text = "malformed"
    \/ last.text = "array"
    \/ is_object(last) /\ "source" \notin DOMAIN last.obj
    \/ has_source(last, "trace") /\ "prereq" \notin DOMAIN last.obj
    \/ has_source(last, "trace") /\ "prereq" \in DOMAIN last.obj
          /\ \E i \in 1..Len(entries(last.obj)) :
                ~({"name", "type"} \subseteq DOMAIN entries(last.obj)[i])
    \/ has_source(last, "heartbeat") /\ "cpuload" \notin DOMAIN last.obj

\* C8 (forward progress): parse_object ends without an exception reaching the
\* caller on every bad record, the sink accepting what it is handed.
C8_ForwardProgress ==
    (C8_BadRecord /\ ~sink.limited) => outcome = "return"

\* C9 (heartbeat fan-out): a heartbeat with K samples allocates one heartbeat
\* id and adds one Heartbeat row followed by K CpuLoadSample rows, with the
\* samples in order, each referencing the id of that Heartbeat row.
C9_HeartbeatFanOut ==
    ( /\ has_source(last, "heartbeat")
      /\ "cpuload" \in DOMAIN last.obj
      /\ ~sink.limited )
    => LET K == Len(last.obj.cpuload)
       IN /\ _heartbeat_id = before.counters._heartbeat_id + 1
          /\ Len(new_rows) = 1 + K
          /\ new_rows[1].table = "heartbeat"
          /\ \A i \in 1..K :
                /\ new_rows[i + 1].table = "cpuload"
                /\ new_rows[i + 1].data.val = last.obj.cpuload[i]
                /\ new_rows[i + 1].data.heartbeat_id = row_id(new_rows[1])

\* C10 (the Heartbeat row): the row is a field-named record that carries the
\* new heartbeat id and the record's session, clk, ctime, rss and nvcsw, each
\* under its own column.
C10_HeartbeatRow ==
    ( /\ has_source(last, "heartbeat")
      /\ ~sink.limited )
    => /\ Len(new_rows) >= 1
       /\ new_rows[1].table = "heartbeat"
       /\ new_rows[1].pytype = "dict"
       /\ new_rows[1].data =
             [ heartbeat_id |-> _heartbeat_id,
               server_session |-> get(last.obj, "session"),
               clk |-> get(last.obj, "clk"),
               ctime |-> get(last.obj, "ctime"),
               rss |-> get(last.obj, "rss"),
               nvcsw |-> get(last.obj, "nvcsw") ]

(***************************************************************************)
(* C11 .. C14, C20                                                         *)
(***************************************************************************)
\* A parser about to start a call, with the given counters, rows and sink.
machine(cs, rows, s) ==
    [ _execution_id |-> cs._execution_id, _event_id |-> cs._event_id,
      _variable_id |-> cs._variable_id, _heartbeat_id |-> cs._heartbeat_id,
      db |-> rows, sink |-> s, exc |-> "", log |-> << >>,
      alloc |-> << >>, resolved |-> { } ]

\* The scenario of C11: a trace record with its prerequisite list, and a sink
\* that accepts every row.
C11_Scenario ==
    /\ has_source(last, "trace")
    /\ "prereq" \in DOMAIN last.obj
    /\ ~sink.limited

\* C11 (one execution, one event, one edge per prerequisite): the record moved
\* the execution and the event counter by one each, added one Execution row
\* and one Event row for the new execution id, and for the prerequisites
\* p1..pn, in order, the edges (p, new event id) and no other edge, whether or
\* not an event p exists.
C11_TraceRows ==
    C11_Scenario =>
        LET edges == select_rows(new_rows, "prerequisite_events")
        IN /\ _execution_id = before.counters._execution_id + 1
           /\ _event_id = before.counters._event_id + 1
           /\ Len(select_rows(new_rows, "mal_execution")) = 1
           /\ Len(select_rows(new_rows, "profiler_event")) = 1
           /\ new_rows[1].table = "mal_execution"
           /\ new_rows[1].data.execution_id = _execution_id
           /\ new_rows[2].table = "profiler_event"
           /\ new_rows[2].data.mal_execution_id = _execution_id
           /\ Len(edges) = Len(last.obj.prereq)
           /\ \A i \in 1..Len(edges) :
                 edges[i].data = [ prerequisite_event |-> last.obj.prereq[i],
                                   consequent_event |-> _event_id ]

\* C11's case: two prerequisites that no event of the database has as its id.
C11_Witness ==
    /\ C11_Scenario
    /\ last.obj.prereq = << 7, 8 >>
    /\ Len(select_rows(new_rows, "prerequisite_events")) = 2
    /\ Len(select_rows(db, "profiler_event")) < 7

\* The code the state token of a record stands for.
expected_state(json_object) ==
    IF "state" \notin DOMAIN json_object THEN NoneInt
    ELSE IF json_object.state = "start" THEN 0
    ELSE IF json_object.state = "done" THEN 1
    ELSE IF json_object.state = "pause" THEN 2
    ELSE NoneInt

\* The record with its state token replaced by start.
with_start(json_object) ==
    [ k \in DOMAIN json_object \cup {"state"} |->
        IF k = "state" THEN "start" ELSE json_object[k] ]

\* C12 (state token): the Event row of a trace carries 0 for start, 1 for
\* done, 2 for pause and null for any other or a missing token; and a
\* well-formed trace with such a token is normalized like the same record
\* with the token start: same outcome, same rows but for the state column.
C12_StateToken ==
    (has_source(last, "trace") /\ ~sink.limited) =>
        /\ Len(new_rows) >= 2
        /\ new_rows[2].table = "profiler_event"
        /\ new_rows[2].data.execution_state = expected_state(last.obj)
        /\ (kind_of(last) = "trace" /\ expected_state(last.obj) = NoneInt) =>
              LET ref == _parse_trace(machine(before.counters, old_rows, sink),
                                      with_start(last.obj))
                  ref_rows == SubSeq(ref.db, before.rows + 1, Len(ref.db))
              IN /\ outcome = "return"
                 /\ ref.exc = ""
                 /\ Len(new_rows) = Len(ref_rows)
                 /\ \A i \in 1..Len(new_rows) :
                       i # 2 => new_rows[i] = ref_rows[i]
                 /\ [new_rows[2].data EXCEPT !.execution_state = 0] = ref_rows[2].data

\* C12's case: a well-formed trace with an unknown token, prerequisites and a
\* variable; its edges and its list entry are there.
C12_Witness ==
    /\ kind_of(last) = "trace"
    /\ ~sink.limited
    /\ "state" \in DOMAIN last.obj
    /\ last.obj.state = "bogus"
    /\ new_rows[2].data.execution_state = NoneInt
    /\ Len(select_rows(new_rows, "prerequisite_events")) = 2
    /\ Len(list_rows(new_rows)) = 1

\* db[j] for some j < i is a row of `table` whose id is `id`.
defined_before(i, table, id) ==
    \E j \in 1..(i - 1) : db[j].table = table /\ row_id(db[j]) = id

\* C13 (referential consistency): every row but a prerequisite edge's
\* prerequisite side references the id of a row the sink was handed before it.
C13_ReferentialConsistency ==
    \A i \in 1..Len(db) :
        LET r == db[i]
        IN /\ r.table = "profiler_event"
                => defined_before(i, "mal_execution", r.data.mal_execution_id)
           /\ r.table = "prerequisite_events"
                => defined_before(i, "profiler_event", r.data.consequent_event)
           /\ r.table \in {"return_variable_list", "argument_variable_list"}
                => /\ defined_before(i, "profiler_event", r.data.event_id)
                   /\ defined_before(i, "mal_variable", r.data.variable_id)
           /\ r.table = "cpuload"
                => defined_before(i, "heartbeat", r.data.heartbeat_id)

\* C14 (storage write error): when the sink rejects a row of a record, no
\* exception reaches the caller of parse_object.
C14_RejectionContained ==
    (has_source(last, "trace") \/ has_source(last, "heartbeat"))
        => outcome # "monetdblite.Error"

\* Every entry of the record has a name that a Variable row held before the call.
all_known(json_object) ==
    /\ entries(json_object) # << >>
    /\ \A i \in 1..Len(entries(json_object)) :
          /\ "name" \in DOMAIN entries(json_object)[i]
          /\ Len(select_variable_id(old_rows, entries(json_object)[i].name)) > 0

\* C20 (independent counters): a heartbeat record moves the heartbeat counter
\* alone and registers no variable; a trace record leaves the heartbeat
\* counter alone; a trace whose variables are all known leaves the variable
\* counter alone.
C20_IndependentCounters ==
    /\ has_source(last, "heartbeat")
          => /\ _heartbeat_id = before.counters._heartbeat_id + 1
             /\ _execution_id = before.counters._execution_id
             /\ _event_id = before.counters._event_id
             /\ _variable_id = before.counters._variable_id
             /\ Len(select_rows(new_rows, "mal_variable")) = 0
    /\ has_source(last, "trace")
          => /\ _heartbeat_id = before.counters._heartbeat_id
             /\ _execution_id = before.counters._execution_id + 1
             /\ Len(select_rows(new_rows, "heartbeat")) = 0
    /\ (has_source(last, "trace") /\ "prereq" \in DOMAIN last.obj
          /\ all_known(last.obj))
          => _variable_id = before.counters._variable_id

\* C20's case: a heartbeat after traces have moved the other three counters.
C20_Witness ==
    /\ has_source(last, "heartbeat")
    /\ _heartbeat_id = 1
    /\ _execution_id >= 1
    /\ _event_id >= 1
    /\ _variable_id >= 1

(***************************************************************************)
(* C15 .. C19: DatabaseManager                                             *)
(***************************************************************************)
bad_query == "This is not a correct SQL query"

count_query == "SELECT count(*) FROM profiler_event"

expected_tables == { tables[i] : i \in 1..Len(tables) }

\* C15 (singleton): once a construction has succeeded, a DatabaseManager(dbpath)
\* call returns the object of that construction, with the dbpath it was
\* constructed with, connected, and constructs nothing, whatever dbpath it is
\* given and whether or not the connection was closed in between.
C15_Singleton ==
    /\ _instances # { } => manager = original.obj
    /\ (call.op = "DatabaseManager" /\ call.registered) =>
          /\ outcome = "return"
          /\ result.kind = "object"
          /\ result.obj = original.obj
          /\ Len(objects) = call.nobjects
          /\ objects[result.obj]._dbpath = original.dbpath
          /\ objects[result.obj]._connection # None

\* C15's case: a call with another dbpath after close_connection.
C15_Witness ==
    /\ call.op = "DatabaseManager"
    /\ call.registered
    /\ ~call.connected
    /\ call.arg # original.dbpath
    /\ result.kind = "object"
    /\ result.obj = original.obj

\* C16 (limits): get_limits on a connected manager returns five limits, the
\* first four being the largest stored execution, event, variable and
\* heartbeat id, 0 where nothing is stored.
C16_FiveLimits ==
    (call.op = "get_limits" /\ call.connected) =>
        /\ outcome = "return"
        /\ result.kind = "list"
        /\ Len(result.list) = 5
        /\ result.list[1] = max_of(id_column(db, "mal_execution"))
        /\ result.list[2] = max_of(id_column(db, "profiler_event"))
        /\ result.list[3] = max_of(id_column(db, "mal_variable"))
        /\ result.list[4] = max_of(id_column(db, "heartbeat"))

\* C17 (rejected query): execute_query on a connected manager returns, leaves
\* the manager connected and the rows as they were; it returns None for a
\* query the database rejects and the count for the count query, also right
\* after a rejected query.
C17_RejectedQuery ==
    (call.op = "execute_query" /\ call.connected) =>
        /\ outcome = "return"
        /\ is_connected(g0, manager)
        /\ db = call.rows
        /\ call.arg = bad_query => result.kind = "None"
        /\ call.arg = count_query =>
              result = [kind |-> "rows",
                        rows |-> << << Len(select_rows(db, "profiler_event")) >> >>]

\* C17's case: a valid query right after a rejected one, on stored rows.
C17_Witness ==
    /\ call.op = "execute_query"
    /\ call.connected
    /\ call.arg = count_query
    /\ call.prev = bad_query
    /\ result.kind = "rows"
    /\ result.rows[1][1] = 1

\* C18 (initialization failure): a DatabaseManager(...) call with no instance
\* registered constructs and initializes a new object; if a table is missing
\* afterwards it raises InitializationError and registers nothing, otherwise
\* it registers and returns the new object.
C18_FailedInitialization ==
    (call.op = "DatabaseManager" /\ ~call.registered) =>
        /\ Len(objects) = call.nobjects + 1
        /\ IF expected_tables \subseteq schema
           THEN /\ outcome = "return"
                /\ _instances = { [cls |-> "DatabaseManager", obj |-> Len(objects)] }
                /\ result = [kind |-> "object", obj |-> Len(objects)]
           ELSE /\ outcome = "InitializationError"
                /\ _instances = { }

\* C18's case: a construction that succeeds after one that failed.
C18_Witness ==
    /\ call.op = "DatabaseManager"
    /\ ~call.registered
    /\ call.nobjects >= 1
    /\ outcome = "return"
    /\ _instances # { }

\* C19 (connection lifecycle): the manager is not connected exactly when the
\* later of close_connection and DatabaseManager(...) was a close_connection;
\* on a manager that is not connected insert_data raises DatabaseManagerError,
\* execute_query, get_cursor and get_limits raise too, and each leaves the
\* rows as they were and the manager not connected.
C19_ConnectionLifecycle ==
    /\ _instances # { } => (~is_connected(g0, manager) <=> closed)
    /\ (call.op \in {"insert_data", "execute_query", "get_cursor", "get_limits"}
          /\ call.registered /\ ~call.connected) =>
          /\ outcome # "return"
          /\ call.op = "insert_data" => outcome = "DatabaseManagerError"
          /\ db = call.rows
          /\ ~is_connected(g0, manager)

\* C19's case: insert_data on a closed manager whose database holds rows.
C19_Witness ==
    /\ call.op = "insert_data"
    /\ call.registered
    /\ ~call.connected
    /\ outcome = "DatabaseManagerError"
    /\ db # << >>

====
